---------------------------- MODULE Spec2Model ----------------------------
(***************************************************************************)
(* Model of the LaTeX -> PDF backend: the document normalizer              *)
(* (app/services/latex_service.py), the toolchain probe                    *)
(* (app/utils/pdflatex.py), the artifact store with its generation,        *)
(* retrieval, info, expiry and purge operations                            *)
(* (app/services/pdf_service.py) and the identifier validation of the      *)
(* download and info endpoints (app/routers/pdf_router.py).                *)
(*                                                                         *)
(* Text is a sequence of tokens.  The three structure markers, the "\use"  *)
(* prefix, "%", a blank, a line break and one ordinary character are the   *)
(* tokens of input text; the fixed preamble of the minimal document adds   *)
(* its own argument tokens.  No marker can arise from the concatenation of *)
(* two other tokens, so Python's substring tests are token tests.          *)
(***************************************************************************)
EXTENDS Integers, Sequences, FiniteSets, TLC

VARIABLES
    codigo_latex,   \* the LaTeX text submitted: the input of a normalizer run, and the
                    \* source the clients of a service run send with every generation request
    resultado,      \* normalizer run: normalizar_latex(codigo_latex)
    resultado2,     \* normalizer run: normalizar_latex(resultado)
    npc,            \* normalizer run: "start", "once", "twice" ("idle" outside it)
    cfg,            \* app.config: FORCE_LATEX_ONLY_MODE, FORCE_PDF_GENERATION, USE_SIMPLE_PDFLATEX
    PDF_FILES,      \* app.config.PDF_FILES: the artifact store
    pdflatex_available,     \* app.utils.pdflatex.pdflatex_available: the memoized probe
    svc_pdflatex_available, \* the name pdflatex_available in the globals of pdf_service
    disk,           \* the directories under TEMP_DIR, each a map file name -> size
    tasks,          \* the background tasks eliminar_archivo_temporal, by file id
    issued,         \* how many ids uuid4 has produced
    returned,       \* the ids generar_pdf_desde_latex has returned
    resp,           \* the response a handler has returned and the server has yet to send
    loop            \* what the event loop is running

nvars == <<codigo_latex, resultado, resultado2, npc>>
svars == <<cfg, PDF_FILES, pdflatex_available, svc_pdflatex_available, disk, tasks,
           issued, returned, resp, loop>>
vars == <<nvars, svars>>

-----------------------------------------------------------------------------
(* Bounds *)

\* longest input text, in tokens, given to the normalizer
MaxLen == 4

\* number of generation requests (ids produced)
MaxIds == 2

-----------------------------------------------------------------------------
(* Text *)

DOCUMENTCLASS == "\\documentclass"
BEGIN_DOCUMENT == "\\begin{document}"
END_DOCUMENT == "\\end{document}"
USE_PREFIX == "\\use"
PERCENT == "%"
SPACE == " "
NEWLINE == "\n"
ORDINARY == "x"

Alphabet ==
    {DOCUMENTCLASS, BEGIN_DOCUMENT, END_DOCUMENT, USE_PREFIX, PERCENT, SPACE, NEWLINE, ORDINARY}

\* str.strip() removes these from both ends
Whitespace == {SPACE, NEWLINE}

Texts(n) == UNION {[1..k -> Alphabet] : k \in 0..n}

SetMin(S) == CHOOSE x \in S : \A y \in S : x <= y
SetMax(S) == CHOOSE x \in S : \A y \in S : x >= y

\* marker in text
Contains(s, tok) == \E i \in 1..Len(s) : s[i] = tok

\* text.find(marker): 0-based index of the first occurrence, -1 when absent
find(s, tok) ==
    IF Contains(s, tok) THEN SetMin({i \in 1..Len(s) : s[i] = tok}) - 1 ELSE -1

\* text[a:b] giving an error value when the end precedes the start
Slice_estricto(s, a, b) == IF b < a THEN <<"IndexError">> ELSE SubSeq(s, a + 1, b)

\* text[a:b] for 0 <= a and 0 <= b <= len(text): empty when b <= a
Slice(s, a, b) == SubSeq(s, a + 1, b)

\* text.strip()
strip(s) ==
    LET keep == {i \in 1..Len(s) : s[i] \notin Whitespace}
    IN  IF keep = {} THEN <<>> ELSE SubSeq(s, SetMin(keep), SetMax(keep))

\* text.startswith(marker)
startswith(s, tok) == Len(s) > 0 /\ s[1] = tok

\* text.splitlines(): no empty last line after a final line break
RECURSIVE splitlines(_)
splitlines(s) ==
    IF s = <<>> THEN <<>>
    ELSE LET i == find(s, NEWLINE)
         IN  IF i = -1 THEN <<s>>
             ELSE <<Slice(s, 0, i)>> \o splitlines(Slice(s, i + 1, Len(s)))

\* '\n'.join(lines)
RECURSIVE join(_)
join(lines) ==
    IF lines = <<>> THEN <<>>
    ELSE IF Len(lines) = 1 THEN lines[1]
    ELSE lines[1] \o <<NEWLINE>> \o join(Tail(lines))

\* a run of 334 ordinary characters, written as one token
PARRAFO == "parrafo"

\* a token of which a slice kept only a part
CORTADO == "cortado"

\* len() of a token
len_token(tok) == IF tok = PARRAFO THEN 334 ELSE Len(tok)

\* len(text), in characters
RECURSIVE len(_)
len(s) == IF s = <<>> THEN 0 ELSE len_token(Head(s)) + len(Tail(s))

\* text[:n], n counted in characters
RECURSIVE Prefijo(_, _)
Prefijo(s, n) ==
    IF s = <<>> \/ n <= 0 THEN <<>>
    ELSE IF len_token(Head(s)) <= n
    THEN <<Head(s)>> \o Prefijo(Tail(s), n - len_token(Head(s)))
    ELSE <<CORTADO>>

-----------------------------------------------------------------------------
(* Document Normalizer: normalizar_latex *)

\* ExtraerContenido with the delimiters of the input never looked at
ExtraerContenido_entero(codigo_trim) == codigo_trim

\* the content wrapped by the minimal document (case: no \documentclass)
ExtraerContenido(codigo_trim) ==
    IF Contains(codigo_trim, BEGIN_DOCUMENT) /\ Contains(codigo_trim, END_DOCUMENT)
    THEN LET inicio == find(codigo_trim, BEGIN_DOCUMENT)
             fin == find(codigo_trim, END_DOCUMENT)
         IN  IF inicio # -1 /\ fin # -1
             THEN strip(Slice(codigo_trim, inicio + 1, fin))
             ELSE codigo_trim
    ELSE codigo_trim

\* the minimal document with the content placed after the closing delimiter
documento_minimo_al_final(contenido) ==
    <<DOCUMENTCLASS, "[12pt]{article}", NEWLINE,
      USE_PREFIX, "package[utf8]{inputenc}", NEWLINE,
      BEGIN_DOCUMENT, NEWLINE, NEWLINE, END_DOCUMENT, NEWLINE>>
    \o contenido

\* the fixed minimal document around a content
documento_minimo(contenido) ==
    <<DOCUMENTCLASS, "[12pt]{article}", NEWLINE,
      USE_PREFIX, "package[utf8]{inputenc}", NEWLINE,
      USE_PREFIX, "package[T1]{fontenc}", NEWLINE,
      USE_PREFIX, "package{amsmath}", NEWLINE,
      USE_PREFIX, "package{amssymb}", NEWLINE,
      USE_PREFIX, "package{graphicx}", NEWLINE,
      NEWLINE,
      BEGIN_DOCUMENT, NEWLINE,
      NEWLINE>>
    \o contenido
    \o <<NEWLINE, NEWLINE, END_DOCUMENT, NEWLINE>>

\* Particionar with en_preambulo never set to False: a comment, a \use line or
\* a blank line met after the content has begun still goes to the preamble
RECURSIVE Particionar_sin_bandera(_, _, _, _)
Particionar_sin_bandera(lineas, en_preambulo, preambulo, contenido) ==
    IF lineas = <<>> THEN [preambulo |-> preambulo, contenido |-> contenido]
    ELSE LET linea == Head(lineas)
             l == strip(linea)
         IN  IF startswith(l, DOCUMENTCLASS) \/ startswith(l, PERCENT)
                \/ startswith(l, USE_PREFIX) \/ l = <<>>
             THEN Particionar_sin_bandera(Tail(lineas), TRUE, Append(preambulo, linea),
                                          contenido)
             ELSE Particionar_sin_bandera(Tail(lineas), TRUE, preambulo,
                                          Append(contenido, linea))

\* the loop over the lines: [preambulo, contenido], both lists of lines
RECURSIVE Particionar(_, _, _, _)
Particionar(lineas, en_preambulo, preambulo, contenido) ==
    IF lineas = <<>> THEN [preambulo |-> preambulo, contenido |-> contenido]
    ELSE LET linea == Head(lineas)
             l == strip(linea)
         IN  IF en_preambulo /\ startswith(l, DOCUMENTCLASS)
             THEN Particionar(Tail(lineas), TRUE, Append(preambulo, linea), contenido)
             ELSE IF en_preambulo
                     /\ (startswith(l, PERCENT) \/ startswith(l, USE_PREFIX) \/ l = <<>>)
             THEN Particionar(Tail(lineas), en_preambulo, Append(preambulo, linea), contenido)
             ELSE Particionar(Tail(lineas), FALSE, preambulo, Append(contenido, linea))

\* documento_nuevo with the closing delimiter never appended
documento_nuevo_sin_end(codigo_trim, tiene_end_document) ==
    LET p == Particionar(splitlines(codigo_trim), TRUE, <<>>, <<>>)
    IN  join(p.preambulo)
        \o <<NEWLINE, BEGIN_DOCUMENT, NEWLINE, NEWLINE>>
        \o join(p.contenido)

\* an input with \documentclass but a missing delimiter, delimiters inserted
documento_nuevo(codigo_trim, tiene_end_document) ==
    LET p == Particionar(splitlines(codigo_trim), TRUE, <<>>, <<>>)
        cuerpo == join(p.preambulo)
                  \o <<NEWLINE, BEGIN_DOCUMENT, NEWLINE, NEWLINE>>
                  \o join(p.contenido)
    IN  IF ~tiene_end_document
        THEN cuerpo \o <<NEWLINE, END_DOCUMENT, NEWLINE>>
        ELSE cuerpo

normalizar_latex(codigo) ==
    LET codigo_trim == strip(codigo)
        tiene_documentclass == Contains(codigo_trim, DOCUMENTCLASS)
        tiene_begin_document == Contains(codigo_trim, BEGIN_DOCUMENT)
        tiene_end_document == Contains(codigo_trim, END_DOCUMENT)
    IN  IF tiene_documentclass /\ tiene_begin_document /\ tiene_end_document
        THEN codigo_trim
        ELSE IF ~tiene_documentclass
        THEN documento_minimo(ExtraerContenido(codigo_trim))
        ELSE IF tiene_documentclass /\ ~(tiene_begin_document /\ tiene_end_document)
        THEN documento_nuevo(codigo_trim, tiene_end_document)
        ELSE codigo_trim

-----------------------------------------------------------------------------
(* Identifiers: str(uuid.uuid4()) and the router's UUID_PATTERN *)

FileIds == 1..MaxIds

HexLower == {"0", "1", "2", "3", "4", "5", "6", "7", "8", "9",
             "a", "b", "c", "d", "e", "f"}

DashPositions == {9, 14, 19, 24}

\* str(uuid.uuid4()) of the i-th id produced: canonical, lowercase, version 4
str_uuid(i) ==
    [k \in 1..36 |->
        IF k \in DashPositions THEN "-"
        ELSE IF k = 15 THEN "4"
        ELSE IF k = 36 THEN <<"1", "2", "3", "4", "5", "6", "7", "8", "9">>[i]
        ELSE "0"]

\* exactly 8-4-4-4-12 lowercase hex
Canonical(s) ==
    /\ Len(s) = 36
    /\ \A k \in 1..36 : IF k \in DashPositions THEN s[k] = "-" ELSE s[k] \in HexLower

\* UUID_PATTERN.match(s) for r'^[0-9a-f]{8}-...-[0-9a-f]{12}$': in Python "$"
\* matches at the end of the string and also just before a line break that
\* ends the string
UUID_PATTERN_match(s) ==
    \/ Canonical(s)
    \/ /\ Len(s) > 0
       /\ s[Len(s)] = NEWLINE
       /\ Canonical(SubSeq(s, 1, Len(s) - 1))

\* the strings the download and info endpoints are called with
RequestIds ==
    {str_uuid(i) : i \in FileIds}
    \cup {str_uuid(1) \o <<NEWLINE>>, str_uuid(1) \o <<"x">>, [str_uuid(1) EXCEPT ![1] = "A"]}

-----------------------------------------------------------------------------
(* Configuration, store entries, disk *)

TEMP_FILE_TTL == 600

PDFLATEX_PATHS ==
    <<"pdflatex", "/usr/bin/pdflatex", "/usr/local/bin/pdflatex", "/usr/texbin/pdflatex",
      "/bin/pdflatex", "/opt/homebrew/bin/pdflatex",
      "C:\\texlive\\2023\\bin\\win32\\pdflatex.exe",
      "C:\\Program Files\\MiKTeX\\miktex\\bin\\x64\\pdflatex.exe">>

\* the LaTeX sources submitted to the generation endpoint
Inputs == {<<PARRAFO, ORDINARY>>, <<DOCUMENTCLASS, NEWLINE, ORDINARY>>}

PdfNames == {"documento.pdf", "otro.pdf"}

EmptyDir == [n \in {} |-> 0]

\* what a compiler run that exits 0 leaves in the working directory (file name
\* -> size): nothing, a log only, a full PDF with its log, a PDF of exactly 100
\* bytes, an empty PDF beside another empty *.pdf
Produced ==
    {EmptyDir,
     "documento.log" :> 501,
     ("documento.pdf" :> 101) @@ ("documento.log" :> 500),
     "documento.pdf" :> 100,
     ("documento.pdf" :> 0) @@ ("otro.pdf" :> 0)}

\* what a compiler run that fails or is killed adds to the directory: nothing
\* or a log (no operation reads any other file of an artifact that stays
\* LaTeX-only)
ProducedOnFailure == {EmptyDir, "documento.log" :> 501}

\* d1.update(d2)
dict_update(d1, d2) ==
    [k \in DOMAIN d1 \cup DOMAIN d2 |-> IF k \in DOMAIN d2 THEN d2[k] ELSE d1[k]]

\* d.get(key, default)
dict_get(d, key, default) == IF key \in DOMAIN d THEN d[key] ELSE default

\* del d[key]
dict_del(d, key) == [k \in DOMAIN d \ {key} |-> d[k]]

\* compile_dir.mkdir(exist_ok=True)
mkdir(dsk, dir) == IF dir \in DOMAIN dsk THEN dsk ELSE dict_update(dsk, dir :> EmptyDir)

\* files written into an existing directory
write(dsk, dir, files) ==
    IF dir \in DOMAIN dsk THEN [dsk EXCEPT ![dir] = dict_update(@, files)] ELSE dsk

\* the directory after a compiler run that exits 0: the source file and what
\* the run wrote (a run rewrites its log and its output from scratch)
run_pdflatex(dsk, dir, produced) ==
    IF dir \in DOMAIN dsk
    THEN [dsk EXCEPT ![dir] =
            dict_update([n \in DOMAIN @ \cap {"documento.tex"} |-> @[n]], produced)]
    ELSE dsk

\* os.path.isdir(compile_dir)
isdir(dsk, dir) == dir \in DOMAIN dsk

\* os.path.isfile(path) / pdf_path.exists()
isfile(dsk, path) == path.dir \in DOMAIN dsk /\ path.name \in DOMAIN dsk[path.dir]

\* os.path.getsize(path) / pdf_path.stat().st_size
getsize(dsk, path) == dsk[path.dir][path.name]

NoCmd == [binary |-> "", flags |-> {}, output_directory |-> 0, source |-> ""]

Idle == [op |-> "idle", file_id |-> 0, stage |-> "", k |-> 0, latex_code |-> <<>>,
         cmd |-> NoCmd]

NoResp == [op |-> "none", file_id |-> <<>>, lookup |-> FALSE, r |-> [status |-> 0]]

-----------------------------------------------------------------------------
(* Retrieval and info *)

\* file_id in PDF_FILES, for the string the endpoint received
InStore(files, file_id) == \E i \in DOMAIN files : str_uuid(i) = file_id

KeyOf(files, file_id) == CHOOSE i \in DOMAIN files : str_uuid(i) = file_id

HTTPException(code) == [status |-> code]

\* obtener_archivo answering a server error when the recorded output file is
\* missing or too small
obtener_archivo_sin_respaldo(files, dsk, file_id, tempfile_ok) ==
    IF ~InStore(files, file_id) THEN HTTPException(404)
    ELSE LET info == files[KeyOf(files, file_id)]
         IN  IF ~dict_get(info, "is_latex_only", FALSE) /\ "path" \in DOMAIN info
             THEN IF isfile(dsk, info.path) /\ getsize(dsk, info.path) > 100
                  THEN [status |-> 200, kind |-> "FileResponse",
                        filename |-> "documento.pdf",
                        media_type |-> "application/pdf", path |-> info.path]
                  ELSE HTTPException(500)
             ELSE IF "latex" \in DOMAIN info
             THEN IF tempfile_ok
                  THEN [status |-> 200, kind |-> "FileResponse", filename |-> "documento.tex",
                        media_type |-> "application/x-tex", content |-> info.latex]
                  ELSE [status |-> 200, kind |-> "PlainTextResponse",
                        filename |-> "documento.tex", content |-> info.latex]
             ELSE HTTPException(500)

\* obtener_archivo: the response for file_id
obtener_archivo(files, dsk, file_id, tempfile_ok) ==
    IF ~InStore(files, file_id) THEN HTTPException(404)
    ELSE LET info == files[KeyOf(files, file_id)]
         IN  IF /\ ~dict_get(info, "is_latex_only", FALSE)
                /\ "path" \in DOMAIN info
                /\ isfile(dsk, info.path)
                /\ getsize(dsk, info.path) > 100
             THEN [status |-> 200, kind |-> "FileResponse", filename |-> "documento.pdf",
                   media_type |-> "application/pdf", path |-> info.path]
             ELSE IF "latex" \in DOMAIN info
             THEN IF tempfile_ok
                  THEN [status |-> 200, kind |-> "FileResponse", filename |-> "documento.tex",
                        media_type |-> "application/x-tex", content |-> info.latex]
                  ELSE [status |-> 200, kind |-> "PlainTextResponse",
                        filename |-> "documento.tex", content |-> info.latex]
             ELSE HTTPException(500)

\* text[:500] + "..." if len(text) > 500 else text
truncar(text) == IF len(text) > 500 THEN Prefijo(text, 500) \o <<"...">> ELSE text

\* the store after get_file_info, had it shortened the entry itself
PDF_FILES_tras_info_sin_copia(files, file_id) ==
    IF InStore(files, file_id)
    THEN [files EXCEPT ![KeyOf(files, file_id)].latex = truncar(@)]
    ELSE files

\* the store after get_file_info: info = PDF_FILES[file_id].copy(), every
\* assignment goes to the copy
PDF_FILES_tras_info(files, file_id) == files

\* get_file_info: the response for file_id
get_file_info(files, dsk, file_id) ==
    IF ~InStore(files, file_id) THEN HTTPException(404)
    ELSE LET info == files[KeyOf(files, file_id)]
             listed == "compile_dir" \in DOMAIN info /\ isdir(dsk, info.compile_dir)
         IN  [status |-> 200,
              info |-> IF "latex" \in DOMAIN info
                       THEN [info EXCEPT !.latex = truncar(@)]
                       ELSE info,
              archivos |-> IF listed THEN dsk[info.compile_dir] ELSE EmptyDir]

\* descargar_pdf: validation, then obtener_archivo
descargar_pdf(files, dsk, file_id, tempfile_ok) ==
    IF ~UUID_PATTERN_match(file_id)
    THEN [op |-> "descargar", file_id |-> file_id, lookup |-> FALSE, r |-> HTTPException(400)]
    ELSE [op |-> "descargar", file_id |-> file_id, lookup |-> TRUE,
          r |-> obtener_archivo(files, dsk, file_id, tempfile_ok)]

\* obtener_info_archivo: validation, then get_file_info
obtener_info_archivo(files, dsk, file_id) ==
    IF ~UUID_PATTERN_match(file_id)
    THEN [op |-> "info", file_id |-> file_id, lookup |-> FALSE, r |-> HTTPException(400)]
    ELSE [op |-> "info", file_id |-> file_id, lookup |-> TRUE,
          r |-> get_file_info(files, dsk, file_id)]

\* the event loop is free: no handler is running and no response is waiting
Libre == loop = Idle /\ resp = NoResp

Descargar(file_id, tempfile_ok) ==
    /\ Libre
    /\ resp' = descargar_pdf(PDF_FILES, disk, file_id, tempfile_ok)
    /\ UNCHANGED <<nvars, cfg, PDF_FILES, pdflatex_available, svc_pdflatex_available,
                   disk, tasks, issued, returned, loop>>

Info(file_id) ==
    /\ Libre
    /\ resp' = obtener_info_archivo(PDF_FILES, disk, file_id)
    /\ PDF_FILES' = IF UUID_PATTERN_match(file_id)
                    THEN PDF_FILES_tras_info(PDF_FILES, file_id)
                    ELSE PDF_FILES
    /\ UNCHANGED <<nvars, cfg, pdflatex_available, svc_pdflatex_available,
                   disk, tasks, issued, returned, loop>>

\* the server sends the response of the handler that has just returned
Enviar ==
    /\ loop = Idle
    /\ resp # NoResp
    /\ resp' = NoResp
    /\ UNCHANGED <<nvars, cfg, PDF_FILES, pdflatex_available, svc_pdflatex_available,
                   disk, tasks, issued, returned, loop>>

-----------------------------------------------------------------------------
(* Generation *)

\* the memo test that never finds a memoized value
ya_verificado_nunca(memo) == FALSE

\* if pdflatex_available is not None: return pdflatex_available
ya_verificado(memo) == memo # "None"

\* the command line of the compiler
pdflatex_cmd(file_id) ==
    [binary |-> "pdflatex",
     flags |-> IF cfg.USE_SIMPLE_PDFLATEX
               THEN {"-interaction=nonstopmode", "-no-shell-escape"}
               ELSE {"-interaction=nonstopmode"},
     output_directory |-> file_id,
     source |-> "documento.tex"]

\* what the handler logged on its way: the branch taken, the compiler pass it
\* ended in, the tail of the compiler log it captured (-1: none)
Traza(latex_code, result, pasada, log_error) ==
    [latex_code |-> latex_code, result |-> result, pasada |-> pasada,
     log_error |-> log_error]

\* add_task with the task never registered
add_task_olvida(tsk, file_id, delay_seconds) == tsk

\* background_tasks.add_task(eliminar_archivo_temporal, file_id, delay_seconds):
\* one more task for the id, asleep for delay_seconds once the response has
\* left; armed counts the tasks registered for the id
add_task(tsk, file_id, delay_seconds) ==
    dict_update(tsk, file_id :> [state |-> "sleeping",
                                 delay_seconds |-> delay_seconds,
                                 armed |-> IF file_id \in DOMAIN tsk
                                           THEN tsk[file_id].armed + 1 ELSE 1])

\* Devolver with the entry discarded when the working directory or the source
\* file could not be created
Devolver_descarta(file_id, files, dsk, traza) ==
    /\ PDF_FILES' = IF traza.result = "setup_error" THEN dict_del(files, file_id) ELSE files
    /\ disk' = dsk
    /\ tasks' = add_task(tasks, file_id, TEMP_FILE_TTL)
    /\ returned' = returned \cup {file_id}
    /\ resp' = [op |-> "generar", file_id |-> str_uuid(file_id), lookup |-> FALSE,
                r |-> [status |-> 200, id |-> file_id, traza |-> traza]]
    /\ loop' = Idle

\* background_tasks.add_task(eliminar_archivo_temporal, file_id, TEMP_FILE_TTL);
\* return {"id": file_id}
Devolver(file_id, files, dsk, traza) ==
    /\ PDF_FILES' = files
    /\ disk' = dsk
    /\ tasks' = add_task(tasks, file_id, TEMP_FILE_TTL)
    /\ returned' = returned \cup {file_id}
    /\ resp' = [op |-> "generar", file_id |-> str_uuid(file_id), lookup |-> FALSE,
                r |-> [status |-> 200, id |-> file_id, traza |-> traza]]
    /\ loop' = Idle

\* try_pdflatex with the configuration ignored: always attempt
try_pdflatex_siempre(disponible) == TRUE

\* try_pdflatex = is_pdflatex_available() or FORCE_PDF_GENERATION
try_pdflatex(disponible) == disponible \/ cfg.FORCE_PDF_GENERATION

\* the entry with its working directory left unrecorded
con_compile_dir_olvidado(info, compile_dir) == info

\* PDF_FILES[file_id]["compile_dir"] = str(compile_dir)
con_compile_dir(info, compile_dir) == dict_update(info, [compile_dir |-> compile_dir])

\* the expiry of the artifact registered before its compilation begins
tasks_al_compilar_armada(tsk, file_id) == add_task(tsk, file_id, TEMP_FILE_TTL)

\* the tasks when the compilation of file_id begins: add_task comes only after
\* the compile attempt, nothing is registered on the way to the compiler
tasks_al_compilar(tsk, file_id) == tsk

\* generar_pdf_desde_latex from the decision try_pdflatex up to the first
\* compiler run
Intentar(file_id, latex_code, files, disponible, setup) ==
    IF ~try_pdflatex(disponible)
    THEN Devolver(file_id, files, disk, Traza(latex_code, "unavailable", 0, -1))
    ELSE IF setup = "mkdir_error"
    THEN Devolver(file_id, files, disk, Traza(latex_code, "setup_error", 0, -1))
    ELSE IF setup = "write_error"
    THEN Devolver(file_id, files, mkdir(disk, file_id),
                  Traza(latex_code, "setup_error", 0, -1))
    ELSE /\ PDF_FILES' = [files EXCEPT ![file_id] = con_compile_dir(@, file_id)]
         /\ disk' = write(mkdir(disk, file_id), file_id,
                          "documento.tex" :> len(files[file_id].latex))
         /\ loop' = [op |-> "generar", file_id |-> file_id, stage |-> "pdflatex", k |-> 1,
                     latex_code |-> latex_code, cmd |-> pdflatex_cmd(file_id)]
         /\ tasks' = tasks_al_compilar(tasks, file_id)
         /\ UNCHANGED <<returned, resp>>

\* the entry created in compiled mode
EntradaNueva_compilada(latex_code) ==
    [latex |-> normalizar_latex(latex_code), is_latex_only |-> FALSE]

\* the entry generar_pdf_desde_latex creates before anything else
EntradaNueva(latex_code) ==
    [latex |-> normalizar_latex(latex_code), is_latex_only |-> TRUE]

\* uuid4 giving the id of the first artifact again
uuid4_repetido(emitidos) == 1

\* uuid.uuid4(): an id none of the emitidos ids issued so far equals (ids are
\* numbered in the order of issue; str_uuid gives their text)
uuid4(emitidos) == emitidos + 1

\* generar_pdf_desde_latex up to its first subprocess call
GenerarPdf(latex_code, setup) ==
    /\ Libre
    /\ issued < MaxIds
    /\ latex_code = codigo_latex
    /\ LET file_id == uuid4(issued)
           files == dict_update(PDF_FILES, file_id :> EntradaNueva(latex_code))
       IN  /\ issued' = file_id
           /\ IF cfg.FORCE_LATEX_ONLY_MODE
              THEN Devolver(file_id, files, disk,
                            Traza(latex_code, "forced_latex_only", 0, -1))
              ELSE IF ~ya_verificado(pdflatex_available)
              THEN /\ PDF_FILES' = files
                   /\ loop' = [op |-> "generar", file_id |-> file_id, stage |-> "probe",
                               k |-> 1, latex_code |-> latex_code, cmd |-> NoCmd]
                   /\ UNCHANGED <<disk, tasks, returned, resp>>
              ELSE Intentar(file_id, latex_code, files, pdflatex_available = "True", setup)
    /\ UNCHANGED <<nvars, cfg, pdflatex_available, svc_pdflatex_available>>

\* the entry replaced by the output path and the mode flag instead of updated
Promovida_sin_fuente(info, pdf_path) == [path |-> pdf_path, is_latex_only |-> FALSE]

\* the entry with the output path written and the mode flag left for later
Promovida_solo_path(info, pdf_path) == dict_update(info, [path |-> pdf_path])

\* the entry after a successful check of the produced files
Promovida(info, pdf_path) == dict_update(info, [path |-> pdf_path, is_latex_only |-> FALSE])

\* the check of the produced files and the update of the entry; primero is the
\* file the directory listing yields first
Verificar(file_id, dsk, primero) ==
    LET dir == dsk[file_id]
        pdf_path == [dir |-> file_id, name |-> "documento.pdf"]
        pdf_files_in_dir == DOMAIN dir \cap PdfNames
    IN  IF isfile(dsk, pdf_path) /\ getsize(dsk, pdf_path) > 0
        THEN [files |-> [PDF_FILES EXCEPT ![file_id] = Promovida(@, pdf_path)],
              result |-> "compiled", log_error |-> -1]
        ELSE IF pdf_files_in_dir # {}
        THEN [files |-> [PDF_FILES EXCEPT ![file_id] =
                            Promovida(@, [dir |-> file_id,
                                          name |-> IF primero \in pdf_files_in_dir
                                                   THEN primero
                                                   ELSE CHOOSE n \in pdf_files_in_dir : TRUE])],
              result |-> "compiled", log_error |-> -1]
        ELSE [files |-> PDF_FILES, result |-> "no_output",
              log_error |-> IF "documento.log" \in DOMAIN dir
                            THEN IF dir["documento.log"] > 500 THEN 500
                                 ELSE dir["documento.log"]
                            ELSE -1]

\* the memo of the probe set to unavailable by a compiler timeout
memo_tras_compilar_degrada(memo, outcome) ==
    IF outcome = "TimeoutExpired" THEN "False" ELSE memo

\* app.utils.pdflatex.pdflatex_available after a compiler run: no branch of
\* the compile attempt assigns it (the FileNotFoundError handler writes
\* svc_pdflatex_available)
memo_tras_compilar(memo, outcome) == memo

\* one subprocess.run of the compiler returns or raises, and the handler runs
\* on to its next subprocess call or to its return
EjecutarPdflatex(outcome, produced, primero) ==
    /\ loop.op = "generar"
    /\ loop.stage = "pdflatex"
    /\ outcome = "FileNotFoundError" => produced = EmptyDir
    /\ outcome \in {"CalledProcessError", "TimeoutExpired"} => produced \in ProducedOnFailure
    /\ LET file_id == loop.file_id
           dsk == IF outcome = "exit0" THEN run_pdflatex(disk, file_id, produced)
                  ELSE write(disk, file_id, produced)
           traza(result) == Traza(loop.latex_code, result, loop.k, -1)
       IN  IF outcome = "FileNotFoundError"
           THEN /\ svc_pdflatex_available' = "False"
                /\ Devolver(file_id, PDF_FILES, disk, traza("not_found"))
           ELSE IF outcome = "CalledProcessError"
           THEN /\ Devolver(file_id, PDF_FILES, dsk, traza("nonzero"))
                /\ UNCHANGED svc_pdflatex_available
           ELSE IF outcome = "TimeoutExpired"
           THEN /\ Devolver(file_id, PDF_FILES, dsk, traza("timeout"))
                /\ UNCHANGED svc_pdflatex_available
           ELSE IF ~cfg.USE_SIMPLE_PDFLATEX /\ loop.k = 1
           THEN /\ disk' = dsk
                /\ loop' = [loop EXCEPT !.k = 2]
                /\ UNCHANGED <<PDF_FILES, svc_pdflatex_available, tasks, returned, resp>>
           ELSE LET v == Verificar(file_id, dsk, primero)
                IN  /\ Devolver(file_id, v.files, dsk,
                                Traza(loop.latex_code, v.result, loop.k, v.log_error))
                    /\ UNCHANGED svc_pdflatex_available
    /\ pdflatex_available' = memo_tras_compilar(pdflatex_available, outcome)
    /\ UNCHANGED <<nvars, cfg, issued>>

-----------------------------------------------------------------------------
(* Toolchain probe *)

\* pdflatex_status, up to the first subprocess call of the probe
PdflatexStatus ==
    /\ Libre
    /\ IF ~ya_verificado(pdflatex_available)
       THEN /\ loop' = [Idle EXCEPT !.op = "status", !.stage = "probe", !.k = 1]
            /\ UNCHANGED resp
       ELSE /\ resp' = [op |-> "status", file_id |-> <<>>, lookup |-> FALSE,
                        r |-> [status |-> 200,
                               pdflatex_available |-> pdflatex_available = "True"]]
            /\ UNCHANGED loop
    /\ UNCHANGED <<nvars, cfg, PDF_FILES, pdflatex_available, svc_pdflatex_available,
                   disk, tasks, issued, returned>>

\* ProbarRuta with an unexpected error of one candidate ending the whole probe
ProbarRuta_aborta(outcome, setup) ==
    /\ loop.stage = "probe"
    /\ LET encontrado == outcome = "exit0"
       IN  IF ~encontrado /\ outcome # "Exception" /\ loop.k < Len(PDFLATEX_PATHS)
           THEN /\ loop' = [loop EXCEPT !.k = loop.k + 1]
                /\ UNCHANGED <<PDF_FILES, pdflatex_available, disk, tasks, returned, resp>>
           ELSE /\ pdflatex_available' = IF encontrado THEN "True" ELSE "False"
                /\ IF loop.op = "generar"
                   THEN Intentar(loop.file_id, loop.latex_code, PDF_FILES, encontrado, setup)
                   ELSE /\ resp' = [op |-> "status", file_id |-> <<>>, lookup |-> FALSE,
                                    r |-> [status |-> 200, pdflatex_available |-> encontrado]]
                        /\ loop' = Idle
                        /\ UNCHANGED <<PDF_FILES, disk, tasks, returned>>
    /\ UNCHANGED <<nvars, cfg, svc_pdflatex_available, issued>>

\* is_pdflatex_available: the version check of candidate k returns or raises
ProbarRuta(outcome, setup) ==
    /\ loop.stage = "probe"
    /\ LET encontrado == outcome = "exit0"
       IN  IF ~encontrado /\ loop.k < Len(PDFLATEX_PATHS)
           THEN /\ loop' = [loop EXCEPT !.k = loop.k + 1]
                /\ UNCHANGED <<PDF_FILES, pdflatex_available, disk, tasks, returned, resp>>
           ELSE /\ pdflatex_available' = IF encontrado THEN "True" ELSE "False"
                /\ IF loop.op = "generar"
                   THEN Intentar(loop.file_id, loop.latex_code, PDF_FILES, encontrado, setup)
                   ELSE /\ resp' = [op |-> "status", file_id |-> <<>>, lookup |-> FALSE,
                                    r |-> [status |-> 200, pdflatex_available |-> encontrado]]
                        /\ loop' = Idle
                        /\ UNCHANGED <<PDF_FILES, disk, tasks, returned>>
    /\ UNCHANGED <<nvars, cfg, svc_pdflatex_available, issued>>

-----------------------------------------------------------------------------
(* Expiry and purge *)

\* eliminar_archivo_temporal with the directory of the id removed even when
\* the id is not in the store
eliminar_archivo_temporal_sin_guarda(files, dsk, file_id, rmtree_ok) ==
    IF file_id \in DOMAIN files
    THEN LET info == files[file_id]
             borrar == /\ ~dict_get(info, "is_latex_only", FALSE)
                       /\ "compile_dir" \in DOMAIN info
                       /\ isdir(dsk, info.compile_dir)
         IN  IF borrar /\ ~rmtree_ok
             THEN [files |-> files, disk |-> dsk]
             ELSE [files |-> dict_del(files, file_id),
                   disk |-> IF borrar THEN dict_del(dsk, info.compile_dir) ELSE dsk]
    ELSE [files |-> files, disk |-> dict_del(dsk, file_id)]

\* eliminar_archivo_temporal after its sleep: the store and the disk it leaves
\* (rmtree_ok: shutil.rmtree does not raise)
eliminar_archivo_temporal(files, dsk, file_id, rmtree_ok) ==
    IF file_id \in DOMAIN files
    THEN LET info == files[file_id]
             borrar == /\ ~dict_get(info, "is_latex_only", FALSE)
                       /\ "compile_dir" \in DOMAIN info
                       /\ isdir(dsk, info.compile_dir)
         IN  IF borrar /\ ~rmtree_ok
             THEN [files |-> files, disk |-> dsk]
             ELSE [files |-> dict_del(files, file_id),
                   disk |-> IF borrar THEN dict_del(dsk, info.compile_dir) ELSE dsk]
    ELSE [files |-> files, disk |-> dsk]

\* a FileResponse has been returned and its file is not read yet: Starlette
\* stats and opens the file only when it sends the body, awaiting on the way
EnviandoArchivo ==
    /\ loop = Idle
    /\ resp.op = "descargar"
    /\ "kind" \in DOMAIN resp.r
    /\ resp.r.kind = "FileResponse"

\* the expiry task of file_id wakes up and runs to its end; it gets the event
\* loop when no handler runs, also between the return of a FileResponse and
\* the reading of its file
EliminarArchivoTemporal(file_id, rmtree_ok) ==
    /\ Libre \/ EnviandoArchivo
    /\ file_id \in DOMAIN tasks
    /\ tasks[file_id].state = "sleeping"
    /\ tasks' = [tasks EXCEPT ![file_id].state = "done"]
    /\ LET e == eliminar_archivo_temporal(PDF_FILES, disk, file_id, rmtree_ok)
       IN  PDF_FILES' = e.files /\ disk' = e.disk
    /\ UNCHANGED <<nvars, cfg, pdflatex_available, svc_pdflatex_available, issued,
                   returned, resp, loop>>

\* what limpiar_archivos_temporales leaves of TEMP_DIR: nothing when every
\* removal succeeds; when one raises, the loop ends in the except clause, so
\* the children not yet visited (quedan without falla) stay whole and the one
\* being removed (falla) stays with the files rmtree had not reached (restos)
limpiar_archivos_temporales(dsk, quedan, falla, restos) ==
    [d \in quedan |-> IF d = falla THEN [n \in restos |-> dsk[d][n]] ELSE dsk[d]]

\* the files of a directory that an rmtree which raised can have left: all of
\* them (it raised on the first) or all but documento.tex (it raised later)
Restos(dir) == {DOMAIN dir, DOMAIN dir \ {"documento.tex"}}

\* limpiar_archivos_temporales: the children of TEMP_DIR are visited in the
\* order of iterdir(), any order; PDF_FILES is not consulted
LimpiarArchivosTemporales(quedan) ==
    /\ Libre
    /\ DOMAIN disk # {}
    /\ quedan \in SUBSET DOMAIN disk
    /\ IF quedan = {}
       THEN disk' = EmptyDir
       ELSE \E falla \in quedan : \E restos \in Restos(disk[falla]) :
                disk' = limpiar_archivos_temporales(disk, quedan, falla, restos)
    /\ UNCHANGED <<nvars, cfg, PDF_FILES, pdflatex_available, svc_pdflatex_available,
                   tasks, issued, returned, resp, loop>>

-----------------------------------------------------------------------------
(* The service *)

Init ==
    /\ codigo_latex \in Inputs
    /\ resultado = <<>>
    /\ resultado2 = <<>>
    /\ npc = "idle"
    /\ cfg \in [FORCE_LATEX_ONLY_MODE : BOOLEAN, FORCE_PDF_GENERATION : BOOLEAN,
                USE_SIMPLE_PDFLATEX : BOOLEAN]
    /\ PDF_FILES = EmptyDir
    /\ pdflatex_available = "None"
    /\ svc_pdflatex_available = "unset"
    /\ disk = EmptyDir
    /\ tasks = EmptyDir
    /\ issued = 0
    /\ returned = {}
    /\ resp = NoResp
    /\ loop = Idle

SetupOutcomes == {"ok", "mkdir_error", "write_error"}
ProbeOutcomes == {"exit0", "nonzero", "FileNotFoundError", "TimeoutExpired", "Exception"}
RunOutcomes == {"exit0", "CalledProcessError", "TimeoutExpired", "FileNotFoundError"}

Next ==
    \/ \E latex_code \in Inputs, setup \in SetupOutcomes : GenerarPdf(latex_code, setup)
    \/ \E outcome \in RunOutcomes, produced \in Produced, primero \in PdfNames :
           EjecutarPdflatex(outcome, produced, primero)
    \/ PdflatexStatus
    \/ \E outcome \in ProbeOutcomes, setup \in SetupOutcomes : ProbarRuta(outcome, setup)
    \/ \E file_id \in RequestIds, tempfile_ok \in BOOLEAN : Descargar(file_id, tempfile_ok)
    \/ \E file_id \in RequestIds : Info(file_id)
    \/ Enviar
    \/ \E file_id \in FileIds, rmtree_ok \in BOOLEAN : EliminarArchivoTemporal(file_id, rmtree_ok)
    \/ \E quedan \in SUBSET FileIds : LimpiarArchivosTemporales(quedan)

Spec == Init /\ [][Next]_vars

-----------------------------------------------------------------------------
(* A run of the normalizer on one input, then on its own output *)

NormInit ==
    /\ codigo_latex \in Texts(MaxLen)
    /\ resultado = <<>>
    /\ resultado2 = <<>>
    /\ npc = "start"
    /\ cfg = [FORCE_LATEX_ONLY_MODE |-> TRUE, FORCE_PDF_GENERATION |-> FALSE,
              USE_SIMPLE_PDFLATEX |-> TRUE]
    /\ PDF_FILES = EmptyDir
    /\ pdflatex_available = "None"
    /\ svc_pdflatex_available = "unset"
    /\ disk = EmptyDir
    /\ tasks = EmptyDir
    /\ issued = 0
    /\ returned = {}
    /\ resp = NoResp
    /\ loop = Idle

Normalizar ==
    /\ npc = "start"
    /\ resultado' = normalizar_latex(codigo_latex)
    /\ npc' = "once"
    /\ UNCHANGED <<codigo_latex, resultado2, svars>>

Renormalizar ==
    /\ npc = "once"
    /\ resultado2' = normalizar_latex(resultado)
    /\ npc' = "twice"
    /\ UNCHANGED <<codigo_latex, resultado, svars>>

NormNext == Normalizar \/ Renormalizar

SpecNorm == NormInit /\ [][NormNext]_vars

-----------------------------------------------------------------------------
(* eliminar_archivo_temporal called twice for one id, on any store and disk *)

\* the shapes of entry generar_pdf_desde_latex leaves for an id
Entradas(i) ==
    LET e == EntradaNueva(<<ORDINARY>>)
    IN  {e,
         con_compile_dir(e, i),
         Promovida(con_compile_dir(e, i), [dir |-> i, name |-> "documento.pdf"])}

\* the contents a working directory can have
Directorios ==
    {"documento.tex" :> 184, ("documento.tex" :> 184) @@ ("documento.pdf" :> 101)}

\* the functions from a subset of D to S
Parciales(D, S) == UNION {[A -> S] : A \in SUBSET D}

ExpiryInit ==
    /\ codigo_latex = <<ORDINARY>>
    /\ resultado = <<>>
    /\ resultado2 = <<>>
    /\ npc = "armed"
    /\ cfg = [FORCE_LATEX_ONLY_MODE |-> FALSE, FORCE_PDF_GENERATION |-> FALSE,
              USE_SIMPLE_PDFLATEX |-> TRUE]
    /\ \E A \in SUBSET FileIds :
           PDF_FILES \in {f \in [A -> UNION {Entradas(i) : i \in FileIds}] :
                             \A i \in A : f[i] \in Entradas(i)}
    /\ pdflatex_available = "True"
    /\ svc_pdflatex_available = "unset"
    /\ disk \in Parciales(FileIds, Directorios)
    /\ \E i \in FileIds :
           tasks = add_task(<<>>, i, TEMP_FILE_TTL)
    /\ issued = MaxIds
    /\ returned = FileIds
    /\ resp = NoResp
    /\ loop = Idle

\* one call of eliminar_archivo_temporal for the id of the task
Expirar(rmtree_ok) ==
    /\ npc \in {"armed", "fired_once"}
    /\ npc' = IF npc = "armed" THEN "fired_once" ELSE "fired_twice"
    /\ \E file_id \in DOMAIN tasks :
           LET e == eliminar_archivo_temporal(PDF_FILES, disk, file_id, rmtree_ok)
           IN  /\ PDF_FILES' = e.files
               /\ disk' = e.disk
               /\ tasks' = [tasks EXCEPT ![file_id].state = "done"]
    /\ UNCHANGED <<codigo_latex, resultado, resultado2, cfg, pdflatex_available,
                   svc_pdflatex_available, issued, returned, resp, loop>>

ExpiryNext == \E rmtree_ok \in BOOLEAN : Expirar(rmtree_ok)

SpecExpiry == ExpiryInit /\ [][ExpiryNext]_vars

-----------------------------------------------------------------------------
(* Claims *)

\* C1: for every input s, normalizar_latex(normalizar_latex(s)) equals
\* normalizar_latex(s).
C1_Idempotence == npc = "twice" => resultado2 = resultado

\* C2: for every input s, normalizar_latex(s) contains \documentclass,
\* \begin{document} and \end{document}, whichever of them the input had.
C2_Completeness ==
    npc \in {"once", "twice"} =>
        /\ Contains(resultado, DOCUMENTCLASS)
        /\ Contains(resultado, BEGIN_DOCUMENT)
        /\ Contains(resultado, END_DOCUMENT)

\* C2 witness: an input with \documentclass and neither delimiter has been
\* normalized.
C2_Witness ==
    /\ npc = "once"
    /\ Contains(codigo_latex, DOCUMENTCLASS)
    /\ ~Contains(codigo_latex, BEGIN_DOCUMENT)
    /\ ~Contains(codigo_latex, END_DOCUMENT)
    /\ Len(resultado) > Len(codigo_latex)

\* the ids whose generation has returned and whose expiry has not fired
Vigentes == {i \in returned : tasks[i].state = "sleeping"}

\* C3: from the return of its generation until its expiry fires, an id is in
\* PDF_FILES, and no download or info response for it is a 404, whatever
\* happened in between.
C3_CreationVisibility ==
    \A i \in Vigentes :
        /\ i \in DOMAIN PDF_FILES
        /\ get_file_info(PDF_FILES, disk, str_uuid(i)).status # 404
        /\ \A tempfile_ok \in BOOLEAN :
               obtener_archivo(PDF_FILES, disk, str_uuid(i), tempfile_ok).status # 404
        /\ resp.op \in {"descargar", "info"} /\ resp.file_id = str_uuid(i)
               => resp.r.status # 404

\* C3 witness: a download of the first id answered 200 after its working
\* directory was purged and while a later generation holds an entry too.
C3_Witness ==
    /\ resp.op = "descargar"
    /\ resp.file_id = str_uuid(1)
    /\ resp.r.status = 200
    /\ 1 \in Vigentes
    /\ "compile_dir" \in DOMAIN PDF_FILES[1]
    /\ 1 \notin DOMAIN disk
    /\ 2 \in DOMAIN PDF_FILES

\* C4: an entry starts with is_latex_only true, and no step changes
\* is_latex_only of an entry from false to true.
C4_ModeMonotonicity ==
    [][/\ \A i \in DOMAIN PDF_FILES' \ DOMAIN PDF_FILES : PDF_FILES'[i].is_latex_only
       /\ \A i \in DOMAIN PDF_FILES' \cap DOMAIN PDF_FILES :
              ~PDF_FILES[i].is_latex_only => ~PDF_FILES'[i].is_latex_only]_vars

\* C4 witness: a compiled artifact whose expiry has fired without removing it
\* has been downloaded.
C4_Witness ==
    /\ resp.op = "descargar"
    /\ resp.r.status = 200
    /\ \E i \in DOMAIN PDF_FILES :
           /\ resp.file_id = str_uuid(i)
           /\ ~PDF_FILES[i].is_latex_only
           /\ tasks[i].state = "done"

\* C5: once the expiry task of an artifact has fired, the artifact is no longer
\* in PDF_FILES and every download or info call for its id reports not-found.
C5_TTLTerminationStore ==
    \A i \in DOMAIN tasks :
        tasks[i].state = "done" =>
            /\ i \notin DOMAIN PDF_FILES
            /\ get_file_info(PDF_FILES, disk, str_uuid(i)).status = 404
            /\ obtener_archivo(PDF_FILES, disk, str_uuid(i), TRUE).status = 404

\* C6: when the expiry of an artifact with a recorded working directory
\* removes the artifact, compiled or not, the working directory is no longer on
\* disk afterwards.
C6_TTLTerminationDisk ==
    [][\A i \in DOMAIN PDF_FILES \ DOMAIN PDF_FILES' :
           "compile_dir" \in DOMAIN PDF_FILES[i]
               => ~isdir(disk', PDF_FILES[i].compile_dir)]_vars

\* C7: a download or info request whose id is not exactly a canonical
\* 8-4-4-4-12 lowercase-hex UUID is answered 400 without a lookup in PDF_FILES.
C7_IdentifierValidation ==
    resp.op \in {"descargar", "info"} /\ ~Canonical(resp.file_id)
        => resp.r.status = 400 /\ ~resp.lookup

\* the branches of generar_pdf_desde_latex on which compilation failed
CompileFailures == {"not_found", "nonzero", "timeout", "no_output", "setup_error"}

\* the compile attempt of the generation that just returned ended without an
\* acceptable output: on a failure branch, or with exit 0 and every *.pdf of the
\* working directory empty
SinSalidaAceptable ==
    \/ resp.r.traza.result \in CompileFailures
    \/ /\ resp.r.traza.result = "compiled"
       /\ \A n \in DOMAIN disk[resp.r.id] \cap PdfNames : disk[resp.r.id][n] = 0

\* C8: a generation whose compilation failed (binary not found, non-zero exit,
\* timeout, no acceptable output, error creating the directory or the source
\* file) returns its id with status 200, and the artifact is in PDF_FILES,
\* LaTeX-only, holding the normalized source.
C8_CompileFailureAbsorbed ==
    resp.op = "generar" /\ SinSalidaAceptable =>
        /\ resp.r.status = 200
        /\ resp.r.id \in DOMAIN PDF_FILES
        /\ PDF_FILES[resp.r.id].is_latex_only
        /\ PDF_FILES[resp.r.id].latex = normalizar_latex(resp.r.traza.latex_code)

\* C9: when generation returns after a compiler timeout, the response is the
\* id (no error), the artifact is LaTeX-only, and its working directory is
\* recorded in the entry and on disk with the source file in it.
C9_TimeoutKeepsWorkDir ==
    resp.op = "generar" /\ resp.r.traza.result = "timeout" =>
        /\ resp.r.status = 200
        /\ resp.r.id \in DOMAIN PDF_FILES
        /\ PDF_FILES[resp.r.id].is_latex_only
        /\ "compile_dir" \in DOMAIN PDF_FILES[resp.r.id]
        /\ isdir(disk, PDF_FILES[resp.r.id].compile_dir)
        /\ "documento.tex" \in DOMAIN disk[PDF_FILES[resp.r.id].compile_dir]

\* C9 witness: a generation has returned after its second compiler pass timed
\* out.
C9_Witness ==
    /\ resp.op = "generar"
    /\ resp.r.traza.result = "timeout"
    /\ resp.r.traza.pasada = 2

\* C10: with the probe memoized as unavailable and force-compile off, every
\* artifact is LaTeX-only with neither output path nor working directory (none
\* on disk either), and a download of its id serves the stored normalized
\* source as documento.tex.
C10_ScenarioB ==
    pdflatex_available = "False" /\ ~cfg.FORCE_PDF_GENERATION =>
        /\ \A i \in DOMAIN PDF_FILES :
               /\ PDF_FILES[i] = [latex |-> normalizar_latex(codigo_latex),
                                  is_latex_only |-> TRUE]
               /\ i \notin DOMAIN disk
               /\ \A tempfile_ok \in BOOLEAN :
                      LET r == obtener_archivo(PDF_FILES, disk, str_uuid(i), tempfile_ok)
                      IN  /\ r.status = 200
                          /\ r.filename = "documento.tex"
                          /\ r.content = normalizar_latex(codigo_latex)
        /\ resp.op = "descargar" /\ resp.r.status = 200 =>
               /\ resp.r.filename = "documento.tex"
               /\ resp.r.content = normalizar_latex(codigo_latex)

\* C10 witness: with force-LaTeX-only and force-compile off and the probe
\* resolved to unavailable, an artifact has been downloaded.
C10_Witness ==
    /\ pdflatex_available = "False"
    /\ ~cfg.FORCE_PDF_GENERATION
    /\ ~cfg.FORCE_LATEX_ONLY_MODE
    /\ resp.op = "descargar"
    /\ resp.r.status = 200

\* C11: an artifact is Compiled only if its output file exists with at least
\* 100 bytes when generation returns, whether the file was found under the
\* expected name or through the *.pdf fallback.
C11_PromotionThreshold ==
    resp.op = "generar" /\ ~PDF_FILES[resp.r.id].is_latex_only =>
        /\ resp.r.traza.result = "compiled"
        /\ "path" \in DOMAIN PDF_FILES[resp.r.id]
        /\ isfile(disk, PDF_FILES[resp.r.id].path)
        /\ getsize(disk, PDF_FILES[resp.r.id].path) >= 100

\* in every entry the output path is present exactly when the mode is Compiled
PathIffCompiled(files) ==
    \A i \in DOMAIN files : "path" \in DOMAIN files[i] <=> ~files[i].is_latex_only

\* C12: in every state an entry of PDF_FILES has an output path iff
\* is_latex_only is false, every info response shows an entry of that shape,
\* and a path once set never changes while the entry exists.
C12_PathIffCompiled ==
    /\ [](/\ PathIffCompiled(PDF_FILES)
          /\ resp.op = "info" /\ resp.r.status = 200 =>
                 ("path" \in DOMAIN resp.r.info <=> ~resp.r.info.is_latex_only))
    /\ [][\A i \in DOMAIN PDF_FILES \cap DOMAIN PDF_FILES' :
              "path" \in DOMAIN PDF_FILES[i] =>
                  /\ "path" \in DOMAIN PDF_FILES'[i]
                  /\ PDF_FILES'[i].path = PDF_FILES[i].path]_vars

\* C12 witness: an info call has answered for a Compiled artifact while the
\* other artifact is LaTeX-only with a working directory.
C12_Witness ==
    /\ resp.op = "info"
    /\ resp.r.status = 200
    /\ "path" \in DOMAIN resp.r.info
    /\ \E i \in DOMAIN PDF_FILES :
           PDF_FILES[i].is_latex_only /\ "compile_dir" \in DOMAIN PDF_FILES[i]

\* C13: a call of eliminar_archivo_temporal for an id that is not in PDF_FILES
\* changes neither PDF_FILES nor any working directory, and an id once removed
\* from PDF_FILES is not removed or added again.
C13_ExpiryNoOp ==
    [][\A i \in DOMAIN tasks :
           npc' # npc /\ i \notin DOMAIN PDF_FILES =>
               PDF_FILES' = PDF_FILES /\ disk' = disk]_vars

\* C13 witness: the second call for an id has returned, the first one having
\* removed the entry of a LaTeX-only artifact and left its working directory
\* on disk, while the other entry and directory are still there.
C13_Witness ==
    /\ npc = "fired_twice"
    /\ \E i \in DOMAIN tasks :
           /\ i \notin DOMAIN PDF_FILES
           /\ i \in DOMAIN disk
           /\ DOMAIN PDF_FILES = FileIds \ {i}
           /\ DOMAIN disk = FileIds

\* the text t occurs in r starting at 0-based position a
OccursAt(r, t, a) == a + Len(t) <= Len(r) /\ SubSeq(r, a + 1, a + Len(t)) = t

\* C14: for every input with none of \documentclass, \begin{document},
\* \end{document}, the output has \documentclass, then \begin{document}, then
\* the trimmed input verbatim, then \end{document}, in that order.
C14_ScenarioA ==
    /\ npc \in {"once", "twice"}
    /\ ~Contains(codigo_latex, DOCUMENTCLASS)
    /\ ~Contains(codigo_latex, BEGIN_DOCUMENT)
    /\ ~Contains(codigo_latex, END_DOCUMENT)
    => /\ Contains(resultado, DOCUMENTCLASS)
       /\ Contains(resultado, BEGIN_DOCUMENT)
       /\ Contains(resultado, END_DOCUMENT)
       /\ find(resultado, DOCUMENTCLASS) < find(resultado, BEGIN_DOCUMENT)
       /\ \E a \in 0..Len(resultado) :
              /\ OccursAt(resultado, strip(codigo_latex), a)
              /\ find(resultado, BEGIN_DOCUMENT) < a
              /\ a + Len(strip(codigo_latex)) <= find(resultado, END_DOCUMENT)

\* C14 witness: an input without markers whose trimming removed whitespace on
\* both sides of a text of several tokens has been normalized.
C14_Witness ==
    /\ npc = "once"
    /\ ~Contains(codigo_latex, DOCUMENTCLASS)
    /\ ~Contains(codigo_latex, BEGIN_DOCUMENT)
    /\ ~Contains(codigo_latex, END_DOCUMENT)
    /\ Len(codigo_latex) = MaxLen
    /\ Len(strip(codigo_latex)) = MaxLen - 2
    /\ codigo_latex[1] \in Whitespace
    /\ codigo_latex[MaxLen] \in Whitespace

\* C15: in two-pass mode, when the first pass left an output file of at least
\* 100 bytes and the second pass exits non-zero or times out, the artifact is
\* Compiled with that output when generation returns.
C15_SecondPassNotFatal ==
    /\ resp.op = "generar"
    /\ resp.r.traza.pasada = 2
    /\ resp.r.traza.result \in {"nonzero", "timeout"}
    /\ isfile(disk, [dir |-> resp.r.id, name |-> "documento.pdf"])
    /\ getsize(disk, [dir |-> resp.r.id, name |-> "documento.pdf"]) >= 100
    => /\ ~PDF_FILES[resp.r.id].is_latex_only
       /\ "path" \in DOMAIN PDF_FILES[resp.r.id]
       /\ PDF_FILES[resp.r.id].path = [dir |-> resp.r.id, name |-> "documento.pdf"]

\* C16: once a compile invocation has failed with FileNotFoundError (the only
\* step that writes svc_pdflatex_available), the value memoized for
\* is_pdflatex_available() is unavailable, and with force-compile off no later
\* generation reaches a compiler run or creates a working directory.
C16_NotFoundClearsMemo ==
    svc_pdflatex_available = "False" =>
        /\ pdflatex_available = "False"
        /\ ~cfg.FORCE_PDF_GENERATION =>
               /\ loop.stage # "pdflatex"
               /\ \A i \in DOMAIN PDF_FILES \ returned : "compile_dir" \notin DOMAIN PDF_FILES[i]

C18_NoBlockingAcrossIds ==
    loop.op = "generar" /\ loop.stage = "pdflatex" =>
        /\ issued < MaxIds =>
               ENABLED (\E setup \in SetupOutcomes : GenerarPdf(codigo_latex, setup))
        /\ \A i \in DOMAIN PDF_FILES \ {loop.file_id} :
               /\ ENABLED Descargar(str_uuid(i), TRUE)
               /\ ENABLED Info(str_uuid(i))
               /\ tasks[i].state = "sleeping" => ENABLED EliminarArchivoTemporal(i, TRUE)

\* the characters a result of normalizar_latex is made of: those of its input
\* and those of the fixed template
Caracteres == Alphabet \cup {documento_minimo(<<>>)[i] : i \in DOMAIN documento_minimo(<<>>)}

\* C19: on every input, however malformed, normalizar_latex returns a string:
\* a finite sequence of characters of the input and of the template, never an
\* error value.
C19_NormalizerTotal ==
    /\ npc \in {"once", "twice"} =>
           /\ DOMAIN resultado = 1..Len(resultado)
           /\ \A i \in DOMAIN resultado : resultado[i] \in Caracteres
    /\ npc = "twice" =>
           /\ DOMAIN resultado2 = 1..Len(resultado2)
           /\ \A i \in DOMAIN resultado2 : resultado2[i] \in Caracteres

\* C19 witness: an input without \documentclass in which \end{document} comes
\* before \begin{document} and a '%' follows has been normalized.
C19_Witness ==
    /\ npc = "once"
    /\ ~Contains(codigo_latex, DOCUMENTCLASS)
    /\ Contains(codigo_latex, BEGIN_DOCUMENT)
    /\ Contains(codigo_latex, END_DOCUMENT)
    /\ Contains(codigo_latex, PERCENT)
    /\ find(codigo_latex, END_DOCUMENT) < find(codigo_latex, BEGIN_DOCUMENT)
    /\ Len(resultado) > 0

\* the Compiled entries whose recorded output file is missing or below 100
\* bytes
Inconsistentes ==
    {i \in DOMAIN PDF_FILES :
        /\ ~PDF_FILES[i].is_latex_only
        /\ "path" \in DOMAIN PDF_FILES[i]
        /\ \/ ~isfile(disk, PDF_FILES[i].path)
           \/ getsize(disk, PDF_FILES[i].path) < 100}

\* C20: a retrieval of a Compiled artifact whose output file is missing or
\* undersized serves the stored source as documento.tex with status 200; a
\* retrieval answers 500 only for an entry without source; no download changes
\* PDF_FILES.
C20_InconsistentRecovery ==
    /\ [](/\ \A i \in Inconsistentes, tempfile_ok \in BOOLEAN :
                 LET r == obtener_archivo(PDF_FILES, disk, str_uuid(i), tempfile_ok)
                 IN  /\ r.status = 200
                     /\ r.filename = "documento.tex"
                     /\ r.content = PDF_FILES[i].latex
          /\ \A i \in DOMAIN PDF_FILES :
                 /\ obtener_archivo(PDF_FILES, disk, str_uuid(i), TRUE).status = 500
                        => "latex" \notin DOMAIN PDF_FILES[i]
                 /\ resp.op = "descargar" /\ resp.file_id = str_uuid(i)
                       /\ resp.r.status # 200 => "latex" \notin DOMAIN PDF_FILES[i])
    /\ [][resp'.op = "descargar" /\ resp' # resp => PDF_FILES' = PDF_FILES]_vars

\* C20 witness: a download of a Compiled artifact whose working directory was
\* purged has been answered with the source.
C20_Witness ==
    /\ resp.op = "descargar"
    /\ resp.r.status = 200
    /\ resp.r.filename = "documento.tex"
    /\ \E i \in Inconsistentes :
           /\ resp.file_id = str_uuid(i)
           /\ resp.r.content = PDF_FILES[i].latex
           /\ PDF_FILES[i].compile_dir \notin DOMAIN disk

\* C21: every compiler invocation of a generation, in simple mode and in
\* two-pass mode, carries -no-shell-escape and -interaction=nonstopmode and has
\* the artifact's own working directory as output directory.
C21_SafeInvocation ==
    loop.op = "generar" /\ loop.stage = "pdflatex" =>
        /\ "-no-shell-escape" \in loop.cmd.flags
        /\ "-interaction=nonstopmode" \in loop.cmd.flags
        /\ loop.cmd.output_directory = PDF_FILES[loop.file_id].compile_dir

\* the configuration and the probe allow a compilation attempt
DebeIntentar ==
    ~cfg.FORCE_LATEX_ONLY_MODE /\ (pdflatex_available = "True" \/ cfg.FORCE_PDF_GENERATION)

\* C22: a generation makes a compilation attempt iff force-LaTeX-only is off
\* and the probe is available or force-compile is on; a compiler run has its
\* working directory and source file on disk; with force-LaTeX-only on there is
\* never a working directory, a probe or a compiler run of a generation; and
\* the attempt of an artifact starts at most once.
C22_AttemptDecision ==
    /\ [](/\ resp.op = "generar" =>
                 (resp.r.traza.result \notin {"forced_latex_only", "unavailable"}
                      <=> DebeIntentar)
          /\ loop.op = "generar" /\ loop.stage = "pdflatex" =>
                 /\ DebeIntentar
                 /\ isdir(disk, loop.file_id)
                 /\ isfile(disk, [dir |-> loop.file_id, name |-> "documento.tex"])
          /\ cfg.FORCE_LATEX_ONLY_MODE =>
                 /\ disk = EmptyDir
                 /\ loop.op # "generar"
                 /\ \A i \in DOMAIN PDF_FILES : "compile_dir" \notin DOMAIN PDF_FILES[i])
    /\ [][loop'.stage = "pdflatex" /\ loop.stage # "pdflatex" =>
              /\ loop'.k = 1
              /\ loop'.file_id \notin returned
              /\ loop'.file_id \in DOMAIN PDF_FILES =>
                     "compile_dir" \notin DOMAIN PDF_FILES[loop'.file_id]]_vars

\* C22 witness: with force-LaTeX-only and force-compile both on and the probe
\* memoized as available by a status call, a generation has returned.
C22_Witness ==
    /\ cfg.FORCE_LATEX_ONLY_MODE
    /\ cfg.FORCE_PDF_GENERATION
    /\ pdflatex_available = "True"
    /\ resp.op = "generar"
    /\ resp.r.traza.result = "forced_latex_only"

C24_ProbedBinaryUsed ==
    [][/\ loop.op = "generar"
       /\ loop.stage = "probe"
       /\ pdflatex_available' = "True"
       /\ loop'.stage = "pdflatex"
       => loop'.cmd.binary = PDFLATEX_PATHS[loop.k]]_vars

\* C25: no compiler run that exits 0, exits non-zero or times out changes the
\* memoized value of the probe; only the run that raised FileNotFoundError (the
\* one writer of svc_pdflatex_available) may.
C25_MemoUntouched ==
    [][loop.stage = "pdflatex" /\ svc_pdflatex_available' = svc_pdflatex_available
           => pdflatex_available' = pdflatex_available]_vars

\* C25 witness: with the probe memoized as available, a generation has
\* returned after a compiler timeout and the memo is still available.
C25_Witness ==
    /\ resp.op = "generar"
    /\ resp.r.traza.result = "timeout"
    /\ pdflatex_available = "True"
    /\ svc_pdflatex_available = "unset"

\* C26: a download or info call changes no entry of PDF_FILES, no file and no
\* expiry task and starts no compiler run; the source of every entry is the
\* normalized text of the submission for as long as the entry exists; the
\* source shown by an info call is the stored one cut to 500 characters plus
\* "...", the stored one staying whole.
C26_ReadsAreReadOnly ==
    /\ [](/\ \A i \in DOMAIN PDF_FILES :
                 PDF_FILES[i].latex = normalizar_latex(codigo_latex)
          /\ resp.op = "info" /\ resp.r.status = 200 =>
                 resp.r.info.latex = truncar(normalizar_latex(codigo_latex)))
    /\ [][resp'.op \in {"descargar", "info"} /\ resp' # resp =>
              /\ PDF_FILES' = PDF_FILES
              /\ disk' = disk
              /\ tasks' = tasks
              /\ loop' = loop]_vars

\* C26 witness: an info call has shown a source cut to 500 characters while
\* the entry holds the whole text.
C26_Witness ==
    /\ resp.op = "info"
    /\ resp.r.status = 200
    /\ len(resp.r.info.latex) = 503
    /\ \E i \in DOMAIN PDF_FILES :
           /\ resp.file_id = str_uuid(i)
           /\ len(PDF_FILES[i].latex) > 503

\* C27: every id a generation has returned has exactly one expiry task, set to
\* TEMP_FILE_TTL seconds, whatever the return path; an entry of PDF_FILES
\* without a task is the one whose generation is still running; a task, once
\* registered, is never registered again nor set back to sleep.
C27_ExpiryArmedOnce ==
    /\ [](/\ DOMAIN tasks = returned
          /\ \A i \in returned :
                 /\ tasks[i].armed = 1
                 /\ tasks[i].delay_seconds = TEMP_FILE_TTL
          /\ \A i \in DOMAIN PDF_FILES :
                 i \in returned \/ (loop.op = "generar" /\ loop.file_id = i)
          /\ resp.op = "generar" /\ resp.r.status = 200 =>
                 /\ resp.r.id \in DOMAIN tasks
                 /\ tasks[resp.r.id].state = "sleeping")
    /\ [][\A i \in DOMAIN tasks :
              /\ i \in DOMAIN tasks'
              /\ tasks'[i].armed = tasks[i].armed
              /\ tasks'[i].delay_seconds = tasks[i].delay_seconds
              /\ tasks'[i].state \in {tasks[i].state, "done"}]_vars

\* C27 witness: two generations have returned on different paths, the first
\* without a working directory and the second compiled, and both ids have
\* their task asleep.
C27_Witness ==
    /\ resp.op = "generar"
    /\ resp.r.traza.result = "compiled"
    /\ resp.r.id = 2
    /\ 1 \in DOMAIN PDF_FILES
    /\ "compile_dir" \notin DOMAIN PDF_FILES[1]
    /\ tasks[1].state = "sleeping"
    /\ tasks[2].state = "sleeping"

\* a step of limpiar_archivos_temporales that removed something: the only
\* step that changes TEMP_DIR and nothing else
PasoDeLimpieza ==
    /\ disk' # disk
    /\ loop = Idle
    /\ UNCHANGED <<PDF_FILES, pdflatex_available, svc_pdflatex_available, tasks,
                   issued, returned, resp, loop>>

\* C28: limpiar_archivos_temporales removes every child of TEMP_DIR, a removal
\* that fails costing no more than the child it failed on, and leaves
\* PDF_FILES and the memoized probe as they were.
C28_PurgeRemovesEveryChild ==
    [][PasoDeLimpieza => Cardinality(DOMAIN disk') <= 1]_vars

\* the text of t after its first \begin{document} and before its first
\* \end{document} (both present); empty when none lies between them
EntreDelimitadores(t) ==
    LET a == find(t, BEGIN_DOCUMENT) + 1
        b == find(t, END_DOCUMENT) + 1
    IN  [k \in 1..(IF b > a THEN b - a - 1 ELSE 0) |-> t[a + k]]

\* the output of case 2 around a body: the fixed preamble, \begin{document},
\* the body, \end{document}
EnDocumentoFijo(cuerpo) ==
    <<DOCUMENTCLASS, "[12pt]{article}", NEWLINE>>
    \o <<USE_PREFIX, "package[utf8]{inputenc}", NEWLINE>>
    \o <<USE_PREFIX, "package[T1]{fontenc}", NEWLINE>>
    \o <<USE_PREFIX, "package{amsmath}", NEWLINE>>
    \o <<USE_PREFIX, "package{amssymb}", NEWLINE>>
    \o <<USE_PREFIX, "package{graphicx}", NEWLINE>>
    \o <<NEWLINE, BEGIN_DOCUMENT, NEWLINE, NEWLINE>>
    \o cuerpo
    \o <<NEWLINE, NEWLINE, END_DOCUMENT, NEWLINE>>

AmbosDelimitadores(t) == Contains(t, BEGIN_DOCUMENT) /\ Contains(t, END_DOCUMENT)

\* C29 as stated: for an input without \documentclass the output is the fixed
\* preamble, \begin{document}, the body, \end{document}, the body being
\* exactly the text between the delimiters when the input has both and the
\* whole trimmed input otherwise.
C29_BodyExactlyBetween ==
    npc \in {"once", "twice"} /\ ~Contains(codigo_latex, DOCUMENTCLASS) =>
        resultado = EnDocumentoFijo(IF AmbosDelimitadores(codigo_latex)
                                    THEN EntreDelimitadores(strip(codigo_latex))
                                    ELSE strip(codigo_latex))

\* C29 amended: as above, the body being the text between the first
\* \begin{document} and the first \end{document} with the whitespace at its
\* two ends trimmed when the input has both.
C29_BodyTrimmedBetween ==
    npc \in {"once", "twice"} /\ ~Contains(codigo_latex, DOCUMENTCLASS) =>
        resultado = EnDocumentoFijo(IF AmbosDelimitadores(codigo_latex)
                                    THEN strip(EntreDelimitadores(strip(codigo_latex)))
                                    ELSE strip(codigo_latex))

\* C29 witness: an input without \documentclass whose delimiters enclose a
\* text with whitespace at an end has been normalized.
C29_Witness ==
    /\ npc = "once"
    /\ ~Contains(codigo_latex, DOCUMENTCLASS)
    /\ AmbosDelimitadores(codigo_latex)
    /\ strip(EntreDelimitadores(strip(codigo_latex))) # <<>>
    /\ strip(EntreDelimitadores(strip(codigo_latex))) # EntreDelimitadores(strip(codigo_latex))

\* a line that may stand in the preamble run: the document-class line, a
\* comment, a \use... import or a blank line
EsDePreambulo(linea) ==
    \/ strip(linea) = <<>>
    \/ strip(linea)[1] \in {DOCUMENTCLASS, PERCENT, USE_PREFIX}

\* the length of the preamble run of the lines L
Corrida(L) == SetMax({n \in 0..Len(L) : \A j \in 1..n : EsDePreambulo(L[j])})

\* C30: for an input with \documentclass that lacks \begin{document} or
\* \end{document}, the output is the preamble run of the lines of the trimmed
\* input, a \begin{document} line followed by a blank line, the remaining lines
\* in their order, and a closing \end{document} line exactly when the input
\* had none; the lines of the input are all there, in order.
C30_PreambleThenBody ==
    /\ npc \in {"once", "twice"}
    /\ Contains(codigo_latex, DOCUMENTCLASS)
    /\ ~AmbosDelimitadores(codigo_latex)
    => LET L == splitlines(strip(codigo_latex))
           k == Corrida(L)
       IN  resultado = join(SubSeq(L, 1, k))
                       \o <<NEWLINE, BEGIN_DOCUMENT, NEWLINE, NEWLINE>>
                       \o join(SubSeq(L, k + 1, Len(L)))
                       \o (IF Contains(codigo_latex, END_DOCUMENT)
                           THEN <<>> ELSE <<NEWLINE, END_DOCUMENT, NEWLINE>>)

\* C30 witness: an input of case 3 in which a line that could stand in a
\* preamble comes after the preamble run has ended has been normalized.
C30_Witness ==
    /\ npc = "once"
    /\ Contains(codigo_latex, DOCUMENTCLASS)
    /\ ~AmbosDelimitadores(codigo_latex)
    /\ LET L == splitlines(strip(codigo_latex))
       IN  \E j \in Corrida(L) + 2..Len(L) : EsDePreambulo(L[j])

\* C31: a generation that returned after a compile failure (compiler not
\* found, non-zero exit, timeout, no output file) with documento.log in the
\* working directory has captured the tail of that log: its last 500
\* characters, or all of it when shorter.
C31_LogTailCaptured ==
    /\ resp.op = "generar"
    /\ resp.r.status = 200
    /\ resp.r.traza.result \in {"not_found", "nonzero", "timeout", "no_output"}
    /\ isfile(disk, [dir |-> resp.r.id, name |-> "documento.log"])
    => LET size == getsize(disk, [dir |-> resp.r.id, name |-> "documento.log"])
       IN  resp.r.traza.log_error = IF size > 500 THEN 500 ELSE size


\* C32: the id under which a generation creates its entry is not, and never
\* was, a key of PDF_FILES (every key ever used is among the ids issued); an
\* entry changes only during its own generation, so two submissions of the
\* same source have distinct ids and separate entries; once the expiry of an
\* id has run, the id never enters PDF_FILES again and its entry, if any is
\* left, never changes.
C32_FreshIds ==
    /\ [](/\ DOMAIN PDF_FILES \subseteq 1..issued
          /\ DOMAIN tasks \subseteq 1..issued
          /\ loop.op = "generar" => loop.file_id = issued /\ loop.file_id \notin returned)
    /\ [][/\ \A i \in DOMAIN PDF_FILES' \ DOMAIN PDF_FILES :
                 /\ i \notin 1..issued
                 /\ i \notin DOMAIN tasks
                 /\ i = issued'
          /\ \A i \in DOMAIN PDF_FILES \cap DOMAIN PDF_FILES' :
                 PDF_FILES'[i] # PDF_FILES[i] => loop.op = "generar" /\ loop.file_id = i
          /\ issued' # issued => issued' \in DOMAIN PDF_FILES' \ DOMAIN PDF_FILES
          /\ \A i \in DOMAIN tasks :
                 tasks[i].state = "done" /\ i \in DOMAIN PDF_FILES' =>
                     i \in DOMAIN PDF_FILES /\ PDF_FILES'[i] = PDF_FILES[i]]_vars

\* C32 witness: the same source was submitted twice; the first artifact has
\* expired and left the store, the second is stored under another id.
C32_Witness ==
    /\ returned = {1, 2}
    /\ tasks[1].state = "done"
    /\ 1 \notin DOMAIN PDF_FILES
    /\ 2 \in DOMAIN PDF_FILES
    /\ PDF_FILES[2].latex = normalizar_latex(codigo_latex)


\* C33: the expiry task of an artifact is registered by the step in which its
\* generation returns, after the update of the compile attempt: no task exists
\* for an artifact whose generation is still running, and from the moment the
\* task exists no step changes the entry (mode, path, working directory,
\* source) until the expiry removes it.
C33_FinalAtReturn ==
    /\ [](loop.op = "generar" => loop.file_id \notin DOMAIN tasks)
    /\ [][/\ \A i \in DOMAIN tasks' \ DOMAIN tasks :
                 /\ loop' = Idle
                 /\ resp'.op = "generar"
                 /\ resp'.r.id = i
                 /\ i \in DOMAIN PDF_FILES'
          /\ \A i \in DOMAIN tasks \cap DOMAIN PDF_FILES \cap DOMAIN PDF_FILES' :
                 PDF_FILES'[i] = PDF_FILES[i]]_vars

\* C33 witness: an artifact that was compiled and returned is served as a PDF
\* while its expiry task sleeps.
C33_Witness ==
    /\ resp.op = "descargar"
    /\ resp.r.status = 200
    /\ resp.r.filename = "documento.pdf"
    /\ \E i \in DOMAIN PDF_FILES :
           /\ resp.file_id = str_uuid(i)
           /\ ~PDF_FILES[i].is_latex_only
           /\ tasks[i].state = "sleeping"


\* C34: every entry of PDF_FILES holds a source (latex) and a mode flag
\* (is_latex_only); a retrieval of an id that is in PDF_FILES is answered with
\* status 200, never by the server error for inconsistent data.
C34_EntriesWellFormed ==
    /\ \A i \in DOMAIN PDF_FILES :
           /\ {"latex", "is_latex_only"} \subseteq DOMAIN PDF_FILES[i]
           /\ PDF_FILES[i].is_latex_only \in BOOLEAN
           /\ \A tempfile_ok \in BOOLEAN :
                  obtener_archivo(PDF_FILES, disk, str_uuid(i), tempfile_ok).status = 200
    /\ resp.op = "descargar" => resp.r.status # 500

\* C34 witness: a download of a stored artifact whose generation could not
\* even create its working directory has been answered with the source.
C34_Witness ==
    /\ resp.op = "descargar"
    /\ resp.r.status = 200
    /\ \E i \in DOMAIN PDF_FILES :
           /\ resp.file_id = str_uuid(i)
           /\ DOMAIN PDF_FILES[i] = {"latex", "is_latex_only"}
           /\ i \notin DOMAIN disk
           /\ ~cfg.FORCE_LATEX_ONLY_MODE
           /\ pdflatex_available = "True"


\* C35: the step in which the expiry of an artifact runs removes the artifact
\* from PDF_FILES, also when the removal of its working directory raised.
C35_EntryRemovedDespiteError ==
    [][\A i \in DOMAIN tasks :
           tasks[i].state = "sleeping" /\ tasks'[i].state = "done"
               => i \notin DOMAIN PDF_FILES']_vars


\* the number of occurrences of a marker in a text
Veces(s, tok) == Cardinality({i \in 1..Len(s) : s[i] = tok})

\* C36: for every input with at most one \begin{document}, the output of
\* normalizar_latex has exactly one \begin{document}.
C36_SingleBeginDocument ==
    npc \in {"once", "twice"} /\ Veces(codigo_latex, BEGIN_DOCUMENT) <= 1
        => Veces(resultado, BEGIN_DOCUMENT) = 1


\* C37: from the moment a retrieval has returned the compiled output of an
\* artifact until the response body is sent, the output file it returned
\* exists, whatever the expiry task of the artifact does in between.
C37_OutputSurvivesExpiry ==
    /\ resp.op = "descargar"
    /\ resp.r.status = 200
    /\ resp.r.filename = "documento.pdf"
    => isfile(disk, resp.r.path)

=============================================================================
